---- MODULE Spec2Model ----
(***************************************************************************)
(* Model of the WorldBox static map creator (inmny/static_wb_map_creator). *)
(*                                                                         *)
(*   js/saveGenerator.js   SaveGenerator (3-argument generateSaveData)     *)
(*   unnamed/part_000      SaveGenerator (4-argument generateSaveData,     *)
(*                         zone units, stats)                              *)
(*   js/imageProcessor.js  ImageProcessor.processImage, rgbToHex           *)
(*   unnamed/part_001      ExcelParser.parseExcel                          *)
(*   js/main.js            MapCreator (event handlers, process pipeline)   *)
(*                                                                         *)
(* JavaScript arrays are modelled as sequences (index i of the code is     *)
(* index i+1 here); a JavaScript Map or Set is a sequence in insertion     *)
(* order; null/undefined are explicit tags, never a string.                *)
(***************************************************************************)
EXTENDS Integers, Sequences, FiniteSets, TLC

VARIABLES
    saveCall,     \* arguments of the generateSaveData call under observation
    saveResult,   \* what that call returned or threw
    imageCall,    \* arguments of the processImage call under observation
    imageResult,  \* how that call's promise settled
    imageFile,    \* MapCreator.imageFile
    excelFile,    \* MapCreator.excelFile
    colorMap,     \* MapCreator.colorMap
    statsConfig,  \* MapCreator.statsConfig
    runs,         \* the invocations of MapCreator.process, oldest first
    ui,           \* what the page shows: download link, error, success, progress
    downloads,    \* number of files handed to the browser by downloadFile
    inputs,       \* number of file and settings events so far
    env           \* the page's surroundings: canvas filter, SaveGenerator script

callVars == <<saveCall, saveResult, imageCall, imageResult>>
appVars == <<imageFile, excelFile, colorMap, statsConfig, runs, ui, downloads,
             inputs, env>>
vars == <<saveCall, saveResult, imageCall, imageResult, imageFile, excelFile,
          colorMap, statsConfig, runs, ui, downloads, inputs, env>>

-----------------------------------------------------------------------------
(* Bounds of the model *)

MaxW == 3          \* widest exhaustively enumerated tile grid
MaxH == 2          \* tallest exhaustively enumerated tile grid
MaxCells == 6      \* most cells of an exhaustively enumerated tile grid
MaxRuns == 2       \* most invocations of MapCreator.process in a behaviour
MaxInputs == 2     \* most file and settings events in a behaviour

(* The tile identifiers used by the enumerated grids *)
TileTypes == {"sand", "soil_low", "deep_ocean"}

-----------------------------------------------------------------------------------------------------------------------------------------------------
(* Loops.  A JavaScript loop  for (i = lo; i < hi; i++) s = body(s, i)  is  *)
(* written as the iterations lo..mid-1 followed by the iterations          *)
(* mid..hi-1, the state after the first part being computed before the     *)
(* second part starts (Computed), as statements run in order.              *)

Computed(s) == DOMAIN s # {}

-----------------------------------------------------------------------------
(* SaveGenerator: the tile catalog (tileMap)                               *)

\* a Set that keeps its newest member first
SetAdd_newestFirst(set, v) ==
    IF \E i \in 1..Len(set) : set[i] = v THEN set ELSE <<v>> \o set

\* Set.prototype.add on an insertion-ordered Set
SetAdd(set, v) ==
    IF \E i \in 1..Len(set) : set[i] = v THEN set ELSE Append(set, v)

\* tileMapSet.add(tiles[y][x])
tileMapCell(s, tiles, y, x) == [set |-> SetAdd(s.set, tiles[y + 1][x + 1])]

\* inner loop of the tileMap scan: for (let x = 0; x < width; x++)
RECURSIVE tileMapRow(_, _, _, _, _)
tileMapRow(s, tiles, y, lo, hi) ==
    IF hi <= lo THEN s
    ELSE IF hi - lo = 1 THEN tileMapCell(s, tiles, y, lo)
    ELSE LET mid == (lo + hi) \div 2
             m == tileMapRow(s, tiles, y, lo, mid)
         IN  IF Computed(m) THEN tileMapRow(m, tiles, y, mid, hi) ELSE m

\* outer loop of the tileMap scan: for (let y = 0; y < height; y++)
RECURSIVE tileMapRows(_, _, _, _, _)
tileMapRows(s, tiles, width, lo, hi) ==
    IF hi <= lo THEN s
    ELSE IF hi - lo = 1 THEN tileMapRow(s, tiles, lo, 0, width)
    ELSE LET mid == (lo + hi) \div 2
             m == tileMapRows(s, tiles, width, lo, mid)
         IN  IF Computed(m) THEN tileMapRows(m, tiles, width, mid, hi) ELSE m

\* const tileMapSet = new Set(); the scan; const tileMap = Array.from(tileMapSet)
buildTileMap(width, height, tiles) ==
    tileMapRows([set |-> <<>>], tiles, width, 0, height).set

\* tileMap.forEach((tileType, index) => tileTypeToIndex.set(tileType, index))
buildTileTypeToIndex(tileMap) ==
    [t \in {tileMap[i] : i \in 1..Len(tileMap)} |->
        (CHOOSE i \in 1..Len(tileMap) : tileMap[i] = t) - 1]

-----------------------------------------------------------------------------
(* SaveGenerator.generateRLECompressedTiles                                *)

\* let lastTileType = null; let tileCount = 0; and the two row arrays
rleRowStart ==
    [lastIsNull |-> TRUE, lastTileType |-> "", tileCount |-> 0,
     rowTileArray |-> <<>>, rowTileAmounts |-> <<>>]

\* if (tileCount > 0 && lastTileType !== null) { push index; push count }
rleFlush(s, tileTypeToIndex) ==
    IF s.tileCount > 0 /\ ~s.lastIsNull
    THEN [s EXCEPT !.rowTileArray = Append(@, tileTypeToIndex[s.lastTileType]),
                   !.rowTileAmounts = Append(@, s.tileCount)]
    ELSE s

\* the loop body with the new run's count left at the old run's value
rleCell_noReset(s, currentTileType, tileTypeToIndex) ==
    IF ~s.lastIsNull /\ currentTileType = s.lastTileType /\ s.tileCount > 0
    THEN [s EXCEPT !.tileCount = @ + 1]
    ELSE [rleFlush(s, tileTypeToIndex) EXCEPT
              !.lastIsNull = FALSE,
              !.lastTileType = currentTileType,
              !.tileCount = IF s.tileCount > 0 THEN s.tileCount ELSE 1]

\* the loop body that never extends a run
rleCell_neverExtend(s, currentTileType, tileTypeToIndex) ==
    [rleFlush(s, tileTypeToIndex) EXCEPT
        !.lastIsNull = FALSE,
        !.lastTileType = currentTileType,
        !.tileCount = 1]

\* body of the loop over x for one cell
rleCell(s, currentTileType, tileTypeToIndex) ==
    IF ~s.lastIsNull /\ currentTileType = s.lastTileType /\ s.tileCount > 0
    THEN [s EXCEPT !.tileCount = @ + 1]
    ELSE [rleFlush(s, tileTypeToIndex) EXCEPT
              !.lastIsNull = FALSE,
              !.lastTileType = currentTileType,
              !.tileCount = 1]

\* for (let x = 0; x < tileWidth; x++)
RECURSIVE rleRowLoop(_, _, _, _, _)
rleRowLoop(s, row, tileTypeToIndex, lo, hi) ==
    IF hi <= lo THEN s
    ELSE IF hi - lo = 1 THEN rleCell(s, row[lo + 1], tileTypeToIndex)
    ELSE LET mid == (lo + hi) \div 2
             m == rleRowLoop(s, row, tileTypeToIndex, lo, mid)
         IN  IF Computed(m) THEN rleRowLoop(m, row, tileTypeToIndex, mid, hi)
             ELSE m

\* one iteration of the loop over y: the row's runs, final run flushed
rleRow(row, tileWidth, tileTypeToIndex) ==
    rleFlush(rleRowLoop(rleRowStart, row, tileTypeToIndex, 0, tileWidth),
             tileTypeToIndex)

generateRLECompressedTiles(tileWidth, tileHeight, tiles, tileTypeToIndex) ==
    LET rows == [y \in 1..tileHeight |->
                    rleRow(tiles[y], tileWidth, tileTypeToIndex)]
    IN  [tileArray   |-> [y \in 1..tileHeight |-> rows[y].rowTileArray],
         tileAmounts |-> [y \in 1..tileHeight |-> rows[y].rowTileAmounts]]

-----
(* SaveGenerator.generateSaveData, both files of the repository            *)

\* the entity collections every document carries, all empty arrays
EntityFields ==
    {"fire", "conwayEater", "conwayCreator", "frozen_tiles", "tiles",
     "cities", "actors_data", "buildings", "kingdoms", "clans", "alliances",
     "wars", "plots", "relations", "cultures", "books", "subspecies",
     "languages", "religions", "families", "armies", "items"}

\* the entity collections with the last one left out
entityCollections_noItems == [f \in EntityFields \ {"items"} |-> <<>>]

entityCollections == [f \in EntityFields |-> <<>>]

\* JavaScript's statsConfig.field || fallback
OrDefault(config, f, fallback) ==
    IF f \in DOMAIN config
       /\ config[f] # (IF f = "playerName" THEN "" ELSE 0)
    THEN config[f] ELSE fallback

\* js/saveGenerator.js: generateSaveData(width, height, tiles)
generateSaveData_js(width, height, tiles) ==
    LET tileMap == buildTileMap(width, height, tiles)
        rle == generateRLECompressedTiles(width, height, tiles,
                                          buildTileTypeToIndex(tileMap))
    IN  [status |-> "returned",
         savedMap |->
            [saveVersion |-> 10,
             width |-> width,
             height |-> height,
             mapStats |-> [population |-> 0, deaths |-> 0],
             tileMap |-> tileMap,
             tileArray |-> rle.tileArray,
             tileAmounts |-> rle.tileAmounts,
             entities |-> entityCollections]]

\* unnamed/part_000: generateSaveData(tileWidth, tileHeight, tiles, statsConfig)
generateSaveData(tileWidth, tileHeight, tiles, config) ==
    IF tileWidth % 64 # 0 \/ tileHeight % 64 # 0
    THEN [status |-> "threw", error |-> "tile size must be a multiple of 64"]
    ELSE
    LET zoneWidth == tileWidth \div 64
        zoneHeight == tileHeight \div 64
        tileMap == buildTileMap(tileWidth, tileHeight, tiles)
        rle == generateRLECompressedTiles(tileWidth, tileHeight, tiles,
                                          buildTileTypeToIndex(tileMap))
    IN  [status |-> "returned",
         savedMap |->
            [saveVersion |-> 17,
             width |-> zoneWidth,
             height |-> zoneHeight,
             mapStats |->
                [population |-> OrDefault(config, "population", 0),
                 deaths |-> OrDefault(config, "deaths", 0),
                 player_name |-> OrDefault(config, "playerName", "The Creator"),
                 world_time |-> OrDefault(config, "worldTime", 0) * 5 * 60],
             tileMap |-> tileMap,
             tileArray |-> rle.tileArray,
             tileAmounts |-> rle.tileAmounts,
             entities |-> entityCollections,
             creaturesBorn |-> OrDefault(config, "creaturesBorn", 0)]]

\* the SaveGenerator class a script tag binds: either file defines it
SaveGeneratorFiles == {"js/saveGenerator.js", "unnamed/part_000"}

callGenerateSaveData(file, c) ==
    IF file = "js/saveGenerator.js"
    THEN generateSaveData_js(c.width, c.height, c.tiles)
    ELSE generateSaveData(c.width, c.height, c.tiles, c.statsConfig)

-----------------------------------------------------------------------------
(* JavaScript Map: a sequence of [key, value] entries in insertion order   *)

MapHas(map, key) == \E i \in 1..Len(map) : map[i].key = key

MapGet(map, key) == map[CHOOSE i \in 1..Len(map) : map[i].key = key].value

\* Map.prototype.set: a present key keeps its place, a new key goes last
MapSet(map, key, value) ==
    IF MapHas(map, key)
    THEN [i \in 1..Len(map) |->
            IF map[i].key = key THEN [key |-> key, value |-> value] ELSE map[i]]
    ELSE Append(map, [key |-> key, value |-> value])

-----------------------------------------------------------------------------
(* ImageProcessor.rgbToHex                                                 *)

HexDigits ==
    <<"0", "1", "2", "3", "4", "5", "6", "7",
      "8", "9", "A", "B", "C", "D", "E", "F">>

\* Math.round(value).toString(16).toUpperCase() for a channel value 0..255
toString16(value) ==
    IF value < 16 THEN HexDigits[value + 1]
    ELSE HexDigits[(value \div 16) + 1] \o HexDigits[(value % 16) + 1]

\* hex.padStart(2, '0')
toHex(value) ==
    LET hex == toString16(value)
    IN  IF Len(hex) < 2 THEN "0" \o hex ELSE hex

rgbToHex(r, g, b) == toHex(r) \o toHex(g) \o toHex(b)

-----------------------------------------------------------------------------
(* The decoded image and the canvas                                        *)
(*                                                                         *)
(* An image is width x height opaque pixels; pixel (x, y) is               *)
(* palette[((x div bandW) + (y div bandH)) mod Len(palette)].              *)

srcPixel(img, x, y) ==
    img.palette[(((x \div img.bandW) + (y \div img.bandH)) % Len(img.palette)) + 1]

\* a source coordinate kept inside the image
Clamp(v, n) == IF v < 0 THEN 0 ELSE IF v > n - 1 THEN n - 1 ELSE v

\* one channel of the bilinear blend of four source pixels, rounded
Blend(c00, c10, c01, c11, fx, dx, fy, dy) ==
    LET num == c00 * (dx - fx) * (dy - fy) + c10 * fx * (dy - fy)
               + c01 * (dx - fx) * fy + c11 * fx * fy
    IN  (2 * num + dx * dy) \div (2 * dx * dy)

\* the interpolation filters a canvas implementation may use when drawImage
\* scales (image smoothing is on by default and its algorithm is left to the
\* implementation)
CanvasFilters == {"nearest", "bilinear"}

\* ctx.drawImage(img, 0, 0, tileWidth, tileHeight) followed by getImageData:
\* the five-argument form draws the WHOLE image into the destination
\* rectangle tileWidth x tileHeight, scaling it when the sizes differ.
\* The result is canvas pixel (x, y) as <<r, g, b>>.
canvasPixel(img, tileWidth, tileHeight, filter, x, y) ==
    IF tileWidth = img.width /\ tileHeight = img.height
    THEN srcPixel(img, x, y)
    ELSE IF filter = "nearest"
    THEN srcPixel(img, ((2 * x + 1) * img.width) \div (2 * tileWidth),
                       ((2 * y + 1) * img.height) \div (2 * tileHeight))
    ELSE LET dx == 2 * tileWidth
             dy == 2 * tileHeight
             nx == (2 * x + 1) * img.width - tileWidth
             ny == (2 * y + 1) * img.height - tileHeight
             x0 == nx \div dx
             y0 == ny \div dy
             x1 == Clamp(x0 + 1, img.width)
             y1 == Clamp(y0 + 1, img.height)
             p00 == srcPixel(img, x0, y0)
             p10 == srcPixel(img, x1, y0)
             p01 == srcPixel(img, x0, y1)
             p11 == srcPixel(img, x1, y1)
         IN  [c \in 1..3 |->
                Blend(p00[c], p10[c], p01[c], p11[c], nx % dx, dx, ny % dy, dy)]

-----------------------------------------------------------------------------
(* ImageProcessor.processImage                                             *)

\* the value bound to the parameter progressCallback: null (the default), a
\* function, or whatever else the caller put in third place
NullCallback == [kind |-> "null", n |-> 0]
FunctionCallback == [kind |-> "function", n |-> 0]
NumberCallback(n) == [kind |-> "number", n |-> n]

\* JavaScript truthiness of that value
Truthy(progressCallback) ==
    \/ progressCallback.kind = "function"
    \/ progressCallback.kind = "number" /\ progressCallback.n # 0

\* progressCallback(current, total): a function is called, anything else
\* raises TypeError (... is not a function)
callProgress(s, progressCallback, current, total) ==
    IF progressCallback.kind = "function"
    THEN [s EXCEPT !.progress = Append(@, <<current, total>>)]
    ELSE [s EXCEPT !.threw = TRUE]

DefaultTile == "soil_low"
ProgressEvery == 1000

\* colorMap.get(colorHex) with every key reported absent
colorMapGet_absent(map, colorHex) == ""

\* let tileType = colorMap.get(colorHex): the value stored under the key, or
\* undefined, which like the empty string is falsy and is written "" here
colorMapGet(map, colorHex) ==
    IF MapHas(map, colorHex) THEN MapGet(map, colorHex) ELSE ""

\* the unmatched tally left untouched
tally_never(unmatchedColors, colorHex) == unmatchedColors

\* const count = unmatchedColors.get(colorHex) || 0; set(colorHex, count + 1)
tally(unmatchedColors, colorHex) ==
    MapSet(unmatchedColors, colorHex,
           (IF MapHas(unmatchedColors, colorHex)
            THEN MapGet(unmatchedColors, colorHex) ELSE 0) + 1)

\* if (!tileType) { tally; tileType = 'soil_low' }  row.push(tileType);
\* processedPixels++
pushTile(s, colorHex, tileType) ==
    IF tileType = ""
    THEN [s EXCEPT !.unmatchedColors = tally(@, colorHex),
                   !.row = Append(@, DefaultTile),
                   !.processedPixels = @ + 1]
    ELSE [s EXCEPT !.row = Append(@, tileType),
                   !.processedPixels = @ + 1]

\* if (progressCallback && processedPixels % 1000 === 0)
\*     progressCallback(processedPixels, totalPixels)
reportProgress(s, progressCallback, totalPixels) ==
    IF Truthy(progressCallback) /\ s.processedPixels % ProgressEvery = 0
    THEN callProgress(s, progressCallback, s.processedPixels, totalPixels)
    ELSE s

\* const colorHex = this.rgbToHex(r, g, b) of the pixel's three channels
pixelHex(rgb) == rgbToHex(rgb[1], rgb[2], rgb[3])

\* the pixel's colour key looked up and its tile pushed
classifyPixel(s, map, colorHex) ==
    pushTile(s, colorHex, colorMapGet(map, colorHex))

\* body of the loop over x: one pixel of the canvas buffer
pixelStep(s, c, tileWidth, tileHeight, x, y) ==
    IF s.threw THEN s
    ELSE reportProgress(
             classifyPixel(s, c.colorMap,
                           pixelHex(canvasPixel(c.imageFile, tileWidth,
                                                tileHeight, c.filter, x, y))),
             c.progressCallback, tileWidth * tileHeight)

\* for (let x = 0; x < canvas.width; x++)
RECURSIVE pixelRow(_, _, _, _, _, _, _)
pixelRow(s, c, tileWidth, tileHeight, y, lo, hi) ==
    IF hi <= lo THEN s
    ELSE IF hi - lo = 1 THEN pixelStep(s, c, tileWidth, tileHeight, lo, y)
    ELSE LET mid == (lo + hi) \div 2
             m == pixelRow(s, c, tileWidth, tileHeight, y, lo, mid)
         IN  IF Computed(m)
             THEN pixelRow(m, c, tileWidth, tileHeight, y, mid, hi)
             ELSE m

\* tiles.push(row), unless the row's scan threw
pushRow(m) == IF m.threw THEN m ELSE [m EXCEPT !.tiles = Append(@, m.row)]

\* one iteration of the loop over y: const row = []; ...; tiles.push(row)
pixelRowDone(s, c, tileWidth, tileHeight, y) ==
    pushRow(pixelRow([s EXCEPT !.row = <<>>], c, tileWidth, tileHeight,
                     y, 0, tileWidth))

\* for (let y = 0; y < canvas.height; y++)
RECURSIVE pixelRows(_, _, _, _, _, _)
pixelRows(s, c, tileWidth, tileHeight, lo, hi) ==
    IF hi <= lo THEN s
    ELSE IF hi - lo = 1 THEN pixelRowDone(s, c, tileWidth, tileHeight, lo)
    ELSE LET mid == (lo + hi) \div 2
             m == pixelRows(s, c, tileWidth, tileHeight, lo, mid)
         IN  IF Computed(m)
             THEN pixelRows(m, c, tileWidth, tileHeight, mid, hi)
             ELSE m

Rejected(error) ==
    [status |-> "rejected", error |-> error, warned |-> FALSE,
     width |-> 0, height |-> 0, tiles |-> <<>>, unmatchedColors |-> <<>>,
     progress |-> <<>>]

\* the cropped size with the rounding taken upward
cropSize_ceil(original) == ((original + 63) \div 64) * 64

\* Math.floor(original / 64) * 64
cropSize(original) == (original \div 64) * 64

\* if (tileWidth !== originalWidth || tileHeight !== originalHeight)
\*     console.warn(...): logged before the canvas is drawn and scanned, so
\* also by a call that rejects later in the scan
sizeWarned(c, tileWidth, tileHeight) ==
    tileWidth # c.imageFile.width \/ tileHeight # c.imageFile.height

\* resolve({width, height, tiles}), or the catch block's reject when the
\* scan threw; unmatchedColors is the Map the console report of lines
\* 97-108 reads, progress the calls the callback received
settle(final, c, tileWidth, tileHeight) ==
    IF final.threw
    THEN [Rejected("image processing failed: progressCallback is not a function")
            EXCEPT !.progress = final.progress,
                   !.warned = sizeWarned(c, tileWidth, tileHeight)]
    ELSE [status |-> "resolved", error |-> "",
          warned |-> sizeWarned(c, tileWidth, tileHeight),
          width |-> tileWidth, height |-> tileHeight,
          tiles |-> final.tiles,
          unmatchedColors |-> final.unmatchedColors,
          progress |-> final.progress]

\* if (progressCallback) progressCallback(totalPixels, totalPixels)
finalProgress(scanned, c, totalPixels) ==
    IF ~scanned.threw /\ Truthy(c.progressCallback)
    THEN callProgress(scanned, c.progressCallback, totalPixels, totalPixels)
    ELSE scanned

\* the body of img.onload once the cropped size is known
scanCanvas(c, tileWidth, tileHeight) ==
    IF tileWidth = 0 \/ tileHeight = 0
    THEN Rejected("image processing failed: image too small")
    ELSE settle(finalProgress(pixelRows([tiles |-> <<>>, row |-> <<>>,
                                         processedPixels |-> 0,
                                         unmatchedColors |-> <<>>,
                                         progress |-> <<>>, threw |-> FALSE],
                                        c, tileWidth, tileHeight,
                                        0, tileHeight),
                              c, tileWidth * tileHeight),
                c, tileWidth, tileHeight)

\* img.onload of processImage: a call c = [imageFile, colorMap,
\* progressCallback, filter]
imgOnload(c) ==
    scanCanvas(c, cropSize(c.imageFile.width), cropSize(c.imageFile.height))

\* processImage(imageFile, colorMap, progressCallback): FileReader, Image
\* decoding, then img.onload
processImage(c) ==
    IF ~c.imageFile.readable THEN Rejected("reading the image file failed")
    ELSE IF ~c.imageFile.decodable THEN Rejected("cannot load the image file")
    ELSE imgOnload(c)

-----------------------------------------------------------------------------
(* ExcelParser.parseExcel.  A text cell is a sequence of characters, a     *)
(* numeric cell a number; data is sheet_to_json's array of rows.           *)

TextCell(chars) == [t |-> "string", chars |-> chars, n |-> 0]
NumberCell(n) == [t |-> "number", chars |-> <<>>, n |-> n]

\* the ASCII white space String.prototype.trim removes: blank, tab, line
\* feed, vertical tab (written as the character itself), form feed,
\* carriage return.  The white space beyond ASCII that trim also removes
\* (no-break space, byte order mark, the Unicode space separators) is not
\* among the characters of the model's cells.
WhiteSpace == {" ", "\t", "\n", "", "\f", "\r"}

\* String.prototype.trim
RECURSIVE Trim(_)
Trim(chars) ==
    IF chars = <<>> THEN chars
    ELSE IF Head(chars) \in WhiteSpace THEN Trim(Tail(chars))
    ELSE IF chars[Len(chars)] \in WhiteSpace
         THEN Trim(SubSeq(chars, 1, Len(chars) - 1))
    ELSE chars

LowerLetters ==
    <<"a", "b", "c", "d", "e", "f", "g", "h", "i", "j", "k", "l", "m",
      "n", "o", "p", "q", "r", "s", "t", "u", "v", "w", "x", "y", "z">>

UpperLetters ==
    <<"A", "B", "C", "D", "E", "F", "G", "H", "I", "J", "K", "L", "M",
      "N", "O", "P", "Q", "R", "S", "T", "U", "V", "W", "X", "Y", "Z">>

\* the capital of a character: of a letter a-z its capital, else itself
UpperOf(ch) ==
    IF \E i \in 1..26 : LowerLetters[i] = ch
    THEN UpperLetters[CHOOSE i \in 1..26 : LowerLetters[i] = ch]
    ELSE ch

\* String.prototype.toUpperCase
ToUpperCase(chars) ==
    [i \in 1..Len(chars) |-> UpperOf(chars[i])]

\* replace(/^#/, '')
StripHash(chars) ==
    IF chars # <<>> /\ Head(chars) = "#" THEN Tail(chars) ELSE chars

\* the characters as one string
RECURSIVE Join(_)
Join(chars) == IF chars = <<>> THEN "" ELSE Head(chars) \o Join(Tail(chars))

\* Number.prototype.toString(16).toUpperCase() of a non-negative integer
RECURSIVE NumberToHex(_)
NumberToHex(n) ==
    IF n < 16 THEN <<HexDigits[n + 1]>>
    ELSE Append(NumberToHex(n \div 16), HexDigits[(n % 16) + 1])

\* padStart(6, '0')
RECURSIVE PadStart6(_)
PadStart6(chars) ==
    IF Len(chars) >= 6 THEN chars ELSE PadStart6(<<"0">> \o chars)

\* /^[0-9A-F]{6}$/.test(colorHex)
IsHex6(chars) ==
    /\ Len(chars) = 6
    /\ \A i \in 1..6 : \E d \in 1..16 : HexDigits[d] = chars[i]

\* Number.prototype.toString() of an integer, in decimal digits
RECURSIVE NumberToString(_)
NumberToString(n) ==
    IF n < 0 THEN <<"-">> \o NumberToString(-n)
    ELSE IF n < 10 THEN <<HexDigits[n + 1]>>
    ELSE Append(NumberToString(n \div 10), HexDigits[(n % 10) + 1])

\* String(row[0]): a string cell is itself, a number its decimal digits
cellString(cell) ==
    IF cell.t = "string" THEN cell.chars ELSE NumberToString(cell.n)

\* the colour key a cell stands for (lines 47-58)
cellColorHex(colorValue) ==
    IF colorValue.t = "string"
    THEN StripHash(ToUpperCase(Trim(colorValue.chars)))
    ELSE PadStart6(NumberToHex(colorValue.n))

\* !colorValue: the empty string and the number 0 are falsy
cellFalsy(colorValue) ==
    IF colorValue.t = "string" THEN colorValue.chars = <<>> ELSE colorValue.n = 0

\* body of the loop over the rows from the second on
parseRow(map, row) ==
    IF Len(row) < 2 THEN map
    ELSE LET tileType == Join(Trim(cellString(row[1])))
             colorValue == row[2]
         IN  IF tileType = "" \/ cellFalsy(colorValue) THEN map
             ELSE IF IsHex6(cellColorHex(colorValue))
                  THEN MapSet(map, Join(cellColorHex(colorValue)), tileType)
                  ELSE map

\* for (let i = 1; i < data.length; i++)
RECURSIVE parseRows(_, _, _)
parseRows(map, data, i) ==
    IF i >= Len(data) THEN map
    ELSE parseRows(parseRow(map, data[i + 1]), data, i + 1)

\* parseExcel(fileOrBuffer): the workbook is read, the first sheet parsed
parseExcel(file) ==
    IF ~file.parsable
    THEN [status |-> "rejected", colorMap |-> <<>>]
    ELSE LET map == parseRows(<<>>, file.data, 1)
         IN  IF Len(map) = 0
             THEN [status |-> "rejected", colorMap |-> <<>>]
             ELSE [status |-> "resolved", colorMap |-> map]

-----------------------------------------------------------------------------
(* Inputs of the image processor *)

Chars(a, b, c, d, e, f) == TextCell(<<a, b, c, d, e, f>>)

HeaderRow == <<TextCell(<<"T">>), TextCell(<<"C">>)>>

\* sand ABCDEF, deep_ocean #3370cc, grass as the number 0x00FF00, a row
\* without tile, a row with an invalid colour, a row of one cell
SheetA ==
    <<HeaderRow,
      <<TextCell(<<"s", "a", "n", "d">>), Chars("A", "B", "C", "D", "E", "F")>>,
      <<TextCell(<<"d", "e", "e", "p", "_", "o", "c", "e", "a", "n">>),
        TextCell(<<"#", "3", "3", "7", "0", "c", "c">>)>>,
      <<TextCell(<<"g", "r", "a", "s", "s">>), NumberCell(65280)>>,
      <<TextCell(<<>>), Chars("1", "1", "2", "2", "3", "3")>>,
      <<TextCell(<<"b", "a", "d">>), TextCell(<<"x", "y", "z">>)>>,
      <<TextCell(<<"o", "n", "e">>)>> >>

\* deep_ocean 3370CC first, sand with blanks around a lowercase colour,
\* 3370CC given again for hills, the number 5 as the tile of 123456 written
\* with a tab and a line feed around it, a tile of white space only
SheetB ==
    <<HeaderRow,
      <<TextCell(<<"d", "e", "e", "p", "_", "o", "c", "e", "a", "n">>),
        Chars("3", "3", "7", "0", "C", "C")>>,
      <<TextCell(<<" ", "s", "a", "n", "d">>),
        TextCell(<<" ", "a", "b", "c", "d", "e", "f", " ">>)>>,
      <<TextCell(<<"h", "i", "l", "l", "s">>), Chars("3", "3", "7", "0", "C", "C")>>,
      <<NumberCell(5), TextCell(<<"\t", "1", "2", "3", "4", "5", "6", "\n">>)>>,
      <<TextCell(<<"\t", "\r">>), Chars("0", "9", "0", "9", "0", "9")>> >>

\* no valid row
SheetEmpty ==
    <<HeaderRow, <<TextCell(<<"b", "a", "d">>), NumberCell(0)>> >>

ExcelFiles ==
    {[name |-> <<"a", ".", "x", "l", "s", "x">>, parsable |-> TRUE, data |-> SheetA],
     [name |-> <<"b", ".", "x", "l", "s", "x">>, parsable |-> TRUE, data |-> SheetB],
     [name |-> <<"e", "m", "p", "t", "y", ".", "x", "l", "s", "x">>, parsable |-> TRUE, data |-> SheetEmpty],
     [name |-> <<"b", "r", "o", "k", "e", "n", ".", "x", "l", "s">>, parsable |-> FALSE, data |-> <<>>]}

\* the colour tables parseExcel can hand to processImage
ColorMaps ==
    {parseExcel(f).colorMap : f \in {g \in ExcelFiles : parseExcel(g).status = "resolved"}}

Sand == <<171, 205, 239>>        \* ABCDEF
NearSand == <<171, 205, 238>>    \* ABCDEE
Ocean == <<51, 112, 204>>        \* 3370CC
Grass == <<0, 255, 0>>           \* 00FF00
Rock == <<18, 52, 86>>           \* 123456
Ash == <<9, 9, 9>>               \* 090909

Solid == [bandW |-> 64, bandH |-> 64, palette |-> <<Sand>>]
Stripes == [bandW |-> 1, bandH |-> 1, palette |-> <<Sand, Ocean, Rock>>]
Bands ==
    [bandW |-> 5, bandH |-> 7,
     palette |-> <<Rock, Sand, NearSand, Grass, Ash, Rock>>]

\* the MIME type of a PNG file, character by character
ImagePng == <<"i", "m", "a", "g", "e", "/", "p", "n", "g">>

Picture(w, h, p) ==
    [type |-> ImagePng, readable |-> TRUE, decodable |-> TRUE,
     width |-> w, height |-> h,
     bandW |-> p.bandW, bandH |-> p.bandH, palette |-> p.palette]

\* a file that cannot be read, or is read and cannot be decoded
BadPicture(r) ==
    [type |-> ImagePng, readable |-> r, decodable |-> FALSE,
     width |-> 0, height |-> 0, bandW |-> 1, bandH |-> 1,
     palette |-> <<Sand>>]

ImageFiles ==
    {Picture(64, 64, Solid), Picture(64, 64, Stripes), Picture(64, 64, Bands),
     Picture(130, 70, Bands),
     Picture(63, 64, Solid), Picture(64, 63, Bands), Picture(200, 10, Stripes),
     BadPicture(TRUE), BadPicture(FALSE)}

NoImageCall == [made |-> FALSE]
NoImageResult == [status |-> "none"]

-----------------------------------------------------------------------------
(* Inputs of the save generator *)

\* every grid of at most MaxW x MaxH and MaxCells cells over TileTypes
SmallGrids ==
    UNION {[1..h -> [1..w -> TileTypes]] :
             <<w, h>> \in {d \in (1..MaxW) \X (1..MaxH) : d[1] * d[2] <= MaxCells}}

\* a grid of block-multiple size laid out in vertical bands of bandW cells
\* whose tile advances by one every bandH rows
BandGrid(w, h, bandW, bandH, names) ==
    [y \in 1..h |-> [x \in 1..w |->
        names[((((x - 1) \div bandW) + ((y - 1) \div bandH)) % Len(names)) + 1]]]

BlockGrids ==
    {BandGrid(d[1], d[2], b[1], b[2], n) :
        d \in {<<64, 64>>, <<128, 192>>, <<128, 64>>},
        b \in {<<1, 64>>, <<5, 7>>, <<64, 64>>, <<200, 200>>},
        n \in {<<"sand", "soil_low", "deep_ocean">>, <<"soil_low", "sand">>}}

\* statsConfig as main.js holds it, and with fields missing
StatsConfigs ==
    {[playerName |-> "", population |-> 0, worldTime |-> 0, deaths |-> 0,
      creaturesBorn |-> 0, toleranceLevel |-> 0],
     [playerName |-> "Ann", population |-> 7, worldTime |-> 3, deaths |-> 2,
      creaturesBorn |-> 9, toleranceLevel |-> 50],
     [population |-> 7]}

DefaultStats == CHOOSE s \in StatsConfigs : DOMAIN s = {"population"}

NoSaveCall == [made |-> FALSE]
NoSaveResult == [status |-> "none"]

-----------------------------------------------------------------------------
(* MapCreator (js/main.js)                                                 *)

Null == [isNull |-> TRUE]
Some(v) == [isNull |-> FALSE, v |-> v]

\* constructor: this.statsConfig
InitialStatsConfig ==
    [playerName |-> "", population |-> 0, worldTime |-> 0, deaths |-> 0,
     creaturesBorn |-> 0, toleranceLevel |-> 0]

NoUi == [downloadLink |-> FALSE, error |-> "", success |-> FALSE,
         progress |-> FALSE]

\* showError leaving the page as it was
showError_silent(u, message) == u

\* showError(message)
showError(u, message) == [u EXCEPT !.error = message, !.success = FALSE]

\* showSuccess(message)
showSuccess(u) == [u EXCEPT !.success = TRUE, !.error = ""]

\* the state the constructor leaves; also the state of the page while the
\* modules are called directly
AppIdle ==
    /\ imageFile = Null
    /\ excelFile = Null
    /\ colorMap = Null
    /\ statsConfig = InitialStatsConfig
    /\ runs = <<>>
    /\ ui = NoUi
    /\ downloads = 0
    /\ inputs = 0
    /\ env = [filter |-> "nearest", saveGenerator |-> "js/saveGenerator.js"]

\* files the user can pick or drop on the image area
PickedImages ==
    {Picture(64, 64, Bands), Picture(63, 64, Solid),
     [type |-> <<"t", "e", "x", "t", "/", "p", "l", "a", "i", "n">>, readable |-> TRUE, decodable |-> FALSE,
      width |-> 0, height |-> 0, bandW |-> 1, bandH |-> 1, palette |-> <<Sand>>]}

\* files the user can pick or drop on the Excel area
PickedExcels ==
    {f \in ExcelFiles : f.name \in {<<"b", ".", "x", "l", "s", "x">>,
                                 <<"e", "m", "p", "t", "y", ".", "x", "l", "s", "x">>}}
    \cup {[name |-> <<"n", "o", "t", "e", "s", ".", "t", "x", "t">>, parsable |-> FALSE, data |-> <<>>]}

\* default.xlsx as fetched
DefaultXlsx == [name |-> <<"d", "e", "f", "a", "u", "l", "t", ".", "x", "l", "s", "x">>, parsable |-> TRUE, data |-> SheetA]

\* values of the tolerance slider
ToleranceLevels == {0, 50, 100}

\* String.prototype.startsWith and endsWith, on strings held as sequences of
\* characters (file names and MIME types)
StartsWith(chars, prefix) ==
    Len(chars) >= Len(prefix) /\ SubSeq(chars, 1, Len(prefix)) = prefix

EndsWith(chars, suffix) ==
    /\ Len(chars) >= Len(suffix)
    /\ SubSeq(chars, Len(chars) - Len(suffix) + 1, Len(chars)) = suffix

\* file.type.startsWith('image/')
IsImageType(type) == StartsWith(type, <<"i", "m", "a", "g", "e", "/">>)

\* file.name.endsWith('.xlsx') || file.name.endsWith('.xls')
IsExcelName(name) ==
    EndsWith(name, <<".", "x", "l", "s", "x">>) \/ EndsWith(name, <<".", "x", "l", "s">>)

\* handleImageFile(file), reached from the drop and the change handlers
HandleImageFile ==
    /\ inputs < MaxInputs
    /\ inputs' = inputs + 1
    /\ \E file \in PickedImages :
          IF ~IsImageType(file.type)
          THEN /\ ui' = showError(ui, "please upload an image file")
               /\ UNCHANGED imageFile
          ELSE /\ imageFile' = Some(file)
               /\ UNCHANGED ui
    /\ UNCHANGED <<callVars, excelFile, colorMap, statsConfig, runs,
                   downloads, env>>

\* handleExcelFile(file)
HandleExcelFile ==
    /\ inputs < MaxInputs
    /\ inputs' = inputs + 1
    /\ \E file \in PickedExcels :
          IF ~IsExcelName(file.name)
          THEN /\ ui' = showError(ui, "please upload an Excel file")
               /\ UNCHANGED excelFile
          ELSE /\ excelFile' = Some(file)
               /\ UNCHANGED ui
    /\ UNCHANGED <<callVars, imageFile, colorMap, statsConfig, runs,
                   downloads, env>>

\* the input listener of the tolerance slider:
\* this.statsConfig.toleranceLevel = parseInt(input.value) || 0
ToleranceInput ==
    /\ inputs < MaxInputs
    /\ inputs' = inputs + 1
    /\ \E t \in ToleranceLevels :
          statsConfig' = [statsConfig EXCEPT !.toleranceLevel = t]
    /\ UNCHANGED <<callVars, imageFile, excelFile, colorMap, runs, ui,
                   downloads, env>>

\* values typed into the other inputs of the statistics panel
StatsInputs ==
    {<<"playerName", "Ann">>, <<"population", 7>>, <<"worldTime", 3>>,
     <<"deaths", 2>>, <<"creaturesBorn", 9>>}

\* the same input listener on #playerName, #population, #worldTime, #deaths
\* and #creaturesBorn: this.statsConfig[id] = value
StatsInput ==
    /\ inputs < MaxInputs
    /\ inputs' = inputs + 1
    /\ \E in \in StatsInputs :
          statsConfig' = [statsConfig EXCEPT ![in[1]] = in[2]]
    /\ UNCHANGED <<callVars, imageFile, excelFile, colorMap, runs, ui,
                   downloads, env>>

\* process() up to its first await: the click on the process button
ProcessClick ==
    /\ Len(runs) < MaxRuns
    /\ IF imageFile.isNull
       THEN /\ ui' = showError(ui, "please upload an image file first")
            /\ runs' = Append(runs, [pc |-> "ended", excelFile |-> Null,
                                     call |-> NoImageCall,
                                     outcome |-> "no image"])
       ELSE /\ ui' = [downloadLink |-> FALSE, error |-> "", success |-> FALSE,
                      progress |-> TRUE]
            \* loadColorMap() reads this.excelFile and awaits the parser
            /\ runs' = Append(runs, [pc |-> "loadColorMap",
                                     excelFile |-> excelFile,
                                     call |-> NoImageCall,
                                     outcome |-> ""])
    /\ UNCHANGED <<callVars, imageFile, excelFile, colorMap, statsConfig,
                   downloads, inputs, env>>

\* the call process() makes: processImage(this.imageFile, this.colorMap,
\* this.statsConfig.toleranceLevel, callback).  processImage has three
\* parameters, so the tolerance level is bound to progressCallback and the
\* callback is dropped.
pipelineCall(file, map, toleranceLevel, filter) ==
    [made |-> TRUE, imageFile |-> file, colorMap |-> map,
     progressCallback |-> NumberCallback(toleranceLevel), filter |-> filter]

\* loadColorMap() settles and process() runs on to its second await
ColorMapSettled(i) ==
    /\ runs[i].pc = "loadColorMap"
    /\ \E fetched \in BOOLEAN :
          LET loaded ==
                IF ~runs[i].excelFile.isNull
                THEN parseExcel(runs[i].excelFile.v)
                ELSE IF fetched THEN parseExcel(DefaultXlsx)
                ELSE [status |-> "rejected", colorMap |-> <<>>]
          IN
          IF loaded.status = "rejected"
          THEN /\ ui' = [showError(ui, "loading the colour table failed")
                            EXCEPT !.progress = FALSE]
               /\ runs' = [runs EXCEPT ![i].pc = "ended",
                                       ![i].outcome = "no colour table"]
               /\ UNCHANGED colorMap
          ELSE /\ colorMap' = Some(loaded.colorMap)
               /\ runs' = [runs EXCEPT
                     ![i].pc = "processImage",
                     ![i].call = pipelineCall(imageFile.v, loaded.colorMap,
                                              statsConfig.toleranceLevel,
                                              env.filter)]
               /\ UNCHANGED ui
    /\ UNCHANGED <<callVars, imageFile, excelFile, statsConfig, downloads,
                   inputs, env>>

\* processImage settles and process() runs to its end
ImageSettled(i) ==
    /\ runs[i].pc = "processImage"
    /\ imageCall' = runs[i].call
    /\ imageResult' = processImage(runs[i].call)
    /\ IF imageResult'.status = "rejected"
       THEN \* catch (error): showProgress(false); showError(...)
            /\ ui' = [showError(ui, "processing failed: " \o imageResult'.error)
                         EXCEPT !.progress = FALSE]
            /\ runs' = [runs EXCEPT ![i].pc = "ended",
                                    ![i].outcome = "image failed"]
            /\ UNCHANGED <<saveCall, saveResult, downloads>>
       ELSE /\ saveCall' = [made |-> TRUE, file |-> env.saveGenerator,
                            width |-> imageResult'.width,
                            height |-> imageResult'.height,
                            tiles |-> imageResult'.tiles,
                            statsConfig |-> statsConfig]
            /\ saveResult' = callGenerateSaveData(saveCall'.file, saveCall')
            /\ \E compressed \in BOOLEAN :
                  IF saveResult'.status = "threw" \/ ~compressed
                  THEN /\ ui' = [showError(ui, "processing failed")
                                    EXCEPT !.progress = FALSE]
                       /\ runs' = [runs EXCEPT ![i].pc = "ended",
                                               ![i].outcome = "save failed"]
                       /\ UNCHANGED downloads
                  ELSE \* downloadFile(wboxData, 'map.wbox'); showSuccess(...)
                       /\ ui' = [showSuccess(ui) EXCEPT !.downloadLink = TRUE,
                                                        !.progress = FALSE]
                       /\ downloads' = downloads + 1
                       /\ runs' = [runs EXCEPT ![i].pc = "ended",
                                               ![i].outcome = "downloaded"]
    /\ UNCHANGED <<imageFile, excelFile, colorMap, statsConfig, inputs, env>>

Init ==
    /\ saveCall = NoSaveCall
    /\ saveResult = NoSaveResult
    /\ imageCall = NoImageCall
    /\ imageResult = NoImageResult
    /\ imageFile = Null
    /\ excelFile = Null
    /\ colorMap = Null
    /\ statsConfig = InitialStatsConfig
    /\ runs = <<>>
    /\ ui = NoUi
    /\ downloads = 0
    /\ inputs = 0
    /\ \E filter \in CanvasFilters, file \in SaveGeneratorFiles :
          env = [filter |-> filter, saveGenerator |-> file]

Next ==
    \/ HandleImageFile
    \/ HandleExcelFile
    \/ ToleranceInput
    \/ StatsInput
    \/ ProcessClick
    \/ \E i \in 1..Len(runs) : ColorMapSettled(i)
    \/ \E i \in 1..Len(runs) : ImageSettled(i)

Spec == Init /\ [][Next]_vars

-----------------------------------------------------------------------------
(* Specification SpecSave: direct calls of generateSaveData                *)

InitSave ==
    /\ AppIdle
    /\ saveResult = NoSaveResult
    /\ imageCall = NoImageCall
    /\ imageResult = NoImageResult
    /\ \/ \E g \in SmallGrids :
             saveCall = [made |-> FALSE, file |-> "", width |-> Len(g[1]),
                         height |-> Len(g), tiles |-> g,
                         statsConfig |-> DefaultStats]
       \/ \E g \in BlockGrids, s \in StatsConfigs :
             saveCall = [made |-> FALSE, file |-> "", width |-> Len(g[1]),
                         height |-> Len(g), tiles |-> g, statsConfig |-> s]

\* SaveGenerator.generateSaveData(...) of one of the two files
GenerateSaveDataCall ==
    /\ ~saveCall.made
    /\ \E file \in SaveGeneratorFiles :
          /\ saveCall' = [saveCall EXCEPT !.made = TRUE, !.file = file]
          /\ saveResult' = callGenerateSaveData(file, saveCall)
    /\ UNCHANGED <<imageCall, imageResult, appVars>>

NextSave == GenerateSaveDataCall

SpecSave == InitSave /\ [][NextSave]_vars

-----------------------------------------------------------------------------
(* Specification SpecImage: calls of processImage, the third argument      *)
(* null, a function, or the tolerance level MapCreator.process passes      *)

ProgressCallbacks ==
    {NullCallback, FunctionCallback}
    \cup {NumberCallback(t) : t \in ToleranceLevels}

InitImage ==
    /\ AppIdle
    /\ saveCall = NoSaveCall
    /\ saveResult = NoSaveResult
    /\ imageResult = NoImageResult
    /\ \E f \in ImageFiles, m \in ColorMaps, filter \in CanvasFilters,
          cb \in ProgressCallbacks :
          imageCall = [made |-> FALSE, imageFile |-> f, colorMap |-> m,
                       progressCallback |-> cb, filter |-> filter]

\* ImageProcessor.processImage(imageFile, colorMap, progressCallback)
ProcessImageCall ==
    /\ ~imageCall.made
    /\ imageCall' = [imageCall EXCEPT !.made = TRUE]
    /\ imageResult' = processImage(imageCall)
    /\ UNCHANGED <<saveCall, saveResult, appVars>>

NextImage == ProcessImageCall

SpecImage == InitImage /\ [][NextImage]_vars

-----------------------------------------------------------------------------
(* Properties of the save generator (checked under SpecSave)               *)

Returned == saveCall.made /\ saveResult.status = "returned"

\* decoding of runs lo+1..hi of one row: run i is amounts[i] repetitions of
\* the catalog entry indices[i]
RECURSIVE Expand(_, _, _, _, _)
Expand(tileMap, indices, amounts, lo, hi) ==
    IF hi <= lo THEN <<>>
    ELSE IF hi - lo = 1
         THEN [k \in 1..amounts[hi] |-> tileMap[indices[hi] + 1]]
    ELSE LET mid == (lo + hi) \div 2
         IN  Expand(tileMap, indices, amounts, lo, mid)
                \o Expand(tileMap, indices, amounts, mid, hi)

DecodeRow(doc, y) ==
    Expand(doc.tileMap, doc.tileArray[y], doc.tileAmounts[y],
           0, Len(doc.tileArray[y]))

\* C1: RLE round-trip.  Expanding, for each row y, run i to tileAmounts[y][i]
\* repetitions of tileMap[tileArray[y][i]] reproduces row y of the grid that
\* was given to generateSaveData, cell for cell.
C1_RoundTrip ==
    Returned =>
        LET doc == saveResult.savedMap
        IN  /\ Len(doc.tileArray) = saveCall.height
            /\ Len(doc.tileAmounts) = saveCall.height
            /\ \A y \in 1..saveCall.height :
                  /\ Len(doc.tileArray[y]) = Len(doc.tileAmounts[y])
                  /\ DecodeRow(doc, y) = SubSeq(saveCall.tiles[y], 1, saveCall.width)

\* a returned document one of whose rows holds a run of two or more cells
\* followed or preceded by another run
C1_Witness ==
    /\ Returned
    /\ \E y \in 1..saveCall.height :
          LET a == saveResult.savedMap.tileAmounts[y]
          IN  Len(a) >= 2 /\ \E i \in 1..Len(a) : a[i] >= 2

\* C2: maximal runs.  In every row produced, no two adjacent runs carry the
\* same catalog index, and every run length is at least 1.
C2_MaximalRuns ==
    Returned =>
        LET doc == saveResult.savedMap
        IN  \A y \in 1..Len(doc.tileArray) :
              /\ \A i \in 1..(Len(doc.tileArray[y]) - 1) :
                    doc.tileArray[y][i] # doc.tileArray[y][i + 1]
              /\ \A i \in 1..Len(doc.tileAmounts[y]) :
                    doc.tileAmounts[y][i] >= 1

\* a returned document with a row in which equal neighbouring cells were
\* merged into one run that has a neighbour run
C2_Witness ==
    /\ Returned
    /\ \E y \in 1..saveCall.height :
          /\ \E x \in 1..(saveCall.width - 1) :
                saveCall.tiles[y][x] = saveCall.tiles[y][x + 1]
          /\ \E x \in 1..(saveCall.width - 1) :
                saveCall.tiles[y][x] # saveCall.tiles[y][x + 1]
          /\ Len(saveResult.savedMap.tileArray[y]) < saveCall.width

\* the tile identifiers that occur in the grid given to the call
GridTiles ==
    {saveCall.tiles[y][x] : y \in 1..saveCall.height, x \in 1..saveCall.width}

\* position of the first cell holding t in a row-major scan
FirstOccurrence(t) ==
    LET ys == {y \in 1..saveCall.height :
                 \E x \in 1..saveCall.width : saveCall.tiles[y][x] = t}
        y0 == CHOOSE y \in ys : \A z \in ys : y <= z
        xs == {x \in 1..saveCall.width : saveCall.tiles[y0][x] = t}
        x0 == CHOOSE x \in xs : \A z \in xs : x <= z
    IN  (y0 - 1) * saveCall.width + x0

\* C3: catalog completeness and order.  tileMap holds every tile identifier
\* of the grid exactly once and nothing else, in the order of first
\* occurrence in a row-major scan, and the index stored for a run is the
\* ordinal of that run's tile in tileMap.
C3_Catalog ==
    Returned =>
        LET doc == saveResult.savedMap
            tm == doc.tileMap
        IN  /\ {tm[i] : i \in 1..Len(tm)} = GridTiles
            /\ \A i, j \in 1..Len(tm) : i # j => tm[i] # tm[j]
            /\ \A i, j \in 1..Len(tm) :
                  i < j => FirstOccurrence(tm[i]) < FirstOccurrence(tm[j])
            /\ \A y \in 1..saveCall.height :
                  tm[doc.tileArray[y][1] + 1] = saveCall.tiles[y][1]

\* a returned document whose catalog has three entries, the grid's first
\* row showing only some of them
C3_Witness ==
    /\ Returned
    /\ Len(saveResult.savedMap.tileMap) = 3
    /\ Cardinality({saveCall.tiles[1][x] : x \in 1..saveCall.width}) < 3

\* C10: zone conversion.  For tile dimensions that are positive multiples
\* of 64 the document's width and height are tileWidth / 64 and
\* tileHeight / 64.
C10_ZoneUnits ==
    (Returned /\ saveCall.width % 64 = 0 /\ saveCall.height % 64 = 0) =>
        /\ saveResult.savedMap.width = saveCall.width \div 64
        /\ saveResult.savedMap.height = saveCall.height \div 64

-----------------------------------------------------------------------------
(* Properties of the image processor (checked under SpecImage)             *)

\* processImage was called on a file that reads and decodes as an image
Decoded ==
    imageCall.made /\ imageCall.imageFile.readable
    /\ imageCall.imageFile.decodable

\* ... of at least one block in each direction
Accepted ==
    Decoded /\ imageCall.imageFile.width >= 64
    /\ imageCall.imageFile.height >= 64

\* the third argument is one a caller may pass under the signature
\* (null or a function), or is falsy like the tolerance level 0
CallbackUsable ==
    imageCall.progressCallback.kind \in {"null", "function"}
    \/ ~Truthy(imageCall.progressCallback)

Resolved == imageCall.made /\ imageResult.status = "resolved"

\* the tile the colour table gives a colour key
TableTile(map, colorHex) ==
    IF MapHas(map, colorHex) THEN MapGet(map, colorHex) ELSE "soil_low"

\* the pixels the scan read, as <<x, y, colour key>>
ScannedPixels ==
    {<<x, y, pixelHex(canvasPixel(imageCall.imageFile, imageResult.width,
                                  imageResult.height, imageCall.filter,
                                  x, y))>> :
        x \in 0..(imageResult.width - 1), y \in 0..(imageResult.height - 1)}

\* C4: cell [y][x] of the tile grid is the classification of the source
\* pixel at column x, row y, for every cell of the grid: the image is
\* cropped, never resampled.
C4_CropNeverScales ==
    Resolved =>
        \A y \in 0..(imageResult.height - 1), x \in 0..(imageResult.width - 1) :
            imageResult.tiles[y + 1][x + 1]
                = TableTile(imageCall.colorMap,
                            pixelHex(srcPixel(imageCall.imageFile, x, y)))

\* C5: a decoded image of W x H pixels fails with the size error and no
\* grid iff W div 64 = 0 or H div 64 = 0; otherwise the grid is
\* (W div 64) * 64 wide and (H div 64) * 64 high, with that many rows of
\* that many cells, and a size that differs from the original only warns.
C5_CropSize ==
    Decoded /\ CallbackUsable =>
        LET W == imageCall.imageFile.width
            H == imageCall.imageFile.height
        IN  IF W \div 64 = 0 \/ H \div 64 = 0
            THEN /\ imageResult.status = "rejected"
                 /\ imageResult.error = "image processing failed: image too small"
                 /\ imageResult.tiles = <<>>
            ELSE /\ imageResult.status = "resolved"
                 /\ imageResult.width = (W \div 64) * 64
                 /\ imageResult.height = (H \div 64) * 64
                 /\ Len(imageResult.tiles) = imageResult.height
                 /\ \A y \in 1..Len(imageResult.tiles) :
                       Len(imageResult.tiles[y]) = imageResult.width
                 /\ imageResult.warned
                       <=> (imageResult.width # W \/ imageResult.height # H)

\* a 130 x 70 image came out 128 x 64 with the warning
C5_Witness ==
    /\ Resolved
    /\ imageCall.imageFile.width = 130 /\ imageCall.imageFile.height = 70
    /\ imageResult.width = 128 /\ imageResult.height = 64
    /\ Len(imageResult.tiles) = 64
    /\ imageResult.warned

\* C8: a scanned pixel whose colour key is absent from the colour table gets
\* the tile "soil_low"; after the scan the unmatched tally holds exactly the
\* absent colour keys, each with the number of scanned pixels of that
\* colour; and the scan of an accepted image is not aborted.
C8_UnmatchedFallback ==
    /\ Accepted /\ CallbackUsable => imageResult.status = "resolved"
    /\ Resolved =>
          LET pixels == ScannedPixels
              unmatched == imageResult.unmatchedColors
          IN  /\ \A p \in pixels :
                    ~MapHas(imageCall.colorMap, p[3]) =>
                        /\ imageResult.tiles[p[2] + 1][p[1] + 1] = "soil_low"
                        /\ \E i \in 1..Len(unmatched) : unmatched[i].key = p[3]
              /\ \A i \in 1..Len(unmatched) :
                    /\ ~MapHas(imageCall.colorMap, unmatched[i].key)
                    /\ unmatched[i].value
                          = Cardinality({p \in pixels : p[3] = unmatched[i].key})
                    /\ \A j \in 1..Len(unmatched) :
                          unmatched[j].key = unmatched[i].key => j = i

\* a scan met matched pixels and at least two unmatched colours, one of them
\* on more than one pixel
C8_Witness ==
    /\ Resolved
    /\ Len(imageResult.unmatchedColors) >= 2
    /\ \E i \in 1..Len(imageResult.unmatchedColors) :
          imageResult.unmatchedColors[i].value > 1
    /\ \E y \in 1..Len(imageResult.tiles) :
          \E x \in 1..Len(imageResult.tiles[y]) :
             imageResult.tiles[y][x] # "soil_low"

\* C9: whatever the tolerance level passed along, a scanned pixel whose
\* colour key is in the colour table has the table's value for that key in
\* its cell of the grid.
C9_ExactMatch ==
    Resolved =>
        \A p \in ScannedPixels :
            MapHas(imageCall.colorMap, p[3]) =>
                imageResult.tiles[p[2] + 1][p[1] + 1]
                    = MapGet(imageCall.colorMap, p[3])

\* a grid with a matched pixel, produced with a tolerance level passed
C9_Witness ==
    /\ Resolved
    /\ imageCall.progressCallback.kind = "number"
    /\ \E p \in ScannedPixels :
          /\ MapHas(imageCall.colorMap, p[3])
          /\ imageResult.tiles[p[2] + 1][p[1] + 1] # "soil_low"

-----------------------------------------------------------------------------
(* Properties of the pipeline (checked under Spec)                         *)

\* the tolerance level process() passed to processImage
PassedTolerance == imageCall.progressCallback.n

\* the image stage of a run was given an image of at least 64 x 64
StageAccepted ==
    imageCall.made /\ imageCall.imageFile.readable
    /\ imageCall.imageFile.decodable
    /\ imageCall.imageFile.width >= 64 /\ imageCall.imageFile.height >= 64

Abs(n) == IF n < 0 THEN -n ELSE n

Max3(a, b, c) ==
    IF a >= b /\ a >= c THEN a ELSE IF b >= c THEN b ELSE c

\* the colours the tables of the pipeline have entries for
TableColors == {Sand, Ocean, Grass, Rock}

\* the three channels of a colour key of the table
KeyChannels(key) == CHOOSE rgb \in TableColors : pixelHex(rgb) = key

\* component-wise maximum distance of two colours over the 0..255 range
ColorDistance(p, q) ==
    Max3(Abs(p[1] - q[1]), Abs(p[2] - q[2]), Abs(p[3] - q[3]))

\* distance of a colour to entry i of the table
EntryDistance(map, rgb, i) == ColorDistance(rgb, KeyChannels(map[i].key))

\* the tile of tolerance matching as the specification words it: the table's
\* value on an exact match; else the first entry at minimum distance among
\* those within t percent of the channel range; else the default tile
TolerantTile(map, rgb, t) ==
    LET near == {i \in 1..Len(map) :
                    100 * EntryDistance(map, rgb, i) <= t * 255}
    IN  IF MapHas(map, pixelHex(rgb)) THEN MapGet(map, pixelHex(rgb))
        ELSE IF t = 0 \/ near = {} THEN "soil_low"
        ELSE map[CHOOSE i \in near :
                    \A j \in near :
                       \/ EntryDistance(map, rgb, i) < EntryDistance(map, rgb, j)
                       \/ /\ EntryDistance(map, rgb, i) = EntryDistance(map, rgb, j)
                          /\ i <= j].value

\* C6: with a tolerance level above 0 the image stage yields a grid in which
\* a pixel without exact entry has the tile of the nearest table entry within
\* the tolerance (first entry on a tie), the default tile only when no entry
\* is that near.
C6_ToleranceMatch ==
    StageAccepted /\ PassedTolerance > 0 =>
        /\ imageResult.status = "resolved"
        /\ \A y \in 0..(imageResult.height - 1),
              x \in 0..(imageResult.width - 1) :
              imageResult.tiles[y + 1][x + 1]
                  = TolerantTile(imageCall.colorMap,
                                 canvasPixel(imageCall.imageFile,
                                             imageResult.width,
                                             imageResult.height,
                                             imageCall.filter, x, y),
                                 PassedTolerance)

\* C7: for every tolerance level set in statsConfig, the image stage of the
\* pipeline on an image of at least 64 x 64 raises no error and completes
\* with a tile grid.
C7_NeverRaises ==
    StageAccepted /\ statsConfig.toleranceLevel \in 0..100 =>
        /\ imageResult.status = "resolved"
        /\ Len(imageResult.tiles) = imageResult.height

-----------------------------------------------------------------------------
(* Further properties of the save generator (checked under SpecSave)       *)

\* the statistics record generateSaveData was given
GivenStats == saveCall.statsConfig

\* C11: generateSaveData called with a tile width or height that is not an
\* exact multiple of 64 fails with a validation error and returns no save
\* document.
C11_Validation ==
    saveCall.made /\ (saveCall.width % 64 # 0 \/ saveCall.height % 64 # 0) =>
        saveResult.status = "threw"

\* C14: a statistic missing from the stats configuration comes out as 0 in
\* the document (population, deaths, world time, creatures born) and the
\* player name as the empty string.
C14_StatsDefaults ==
    Returned =>
        LET doc == saveResult.savedMap
            stats == saveResult.savedMap.mapStats
        IN  /\ "population" \notin DOMAIN GivenStats =>
                  "population" \in DOMAIN stats /\ stats.population = 0
            /\ "deaths" \notin DOMAIN GivenStats =>
                  "deaths" \in DOMAIN stats /\ stats.deaths = 0
            /\ "worldTime" \notin DOMAIN GivenStats =>
                  "world_time" \in DOMAIN stats /\ stats.world_time = 0
            /\ "creaturesBorn" \notin DOMAIN GivenStats =>
                  "creaturesBorn" \in DOMAIN doc /\ doc.creaturesBorn = 0
            /\ "playerName" \notin DOMAIN GivenStats =>
                  "player_name" \in DOMAIN stats /\ stats.player_name = ""

\* C15: the document's world time is the given worldTime (months) times
\* 5 * 60, and 0 when no worldTime is given.
C15_WorldTime ==
    Returned =>
        /\ "world_time" \in DOMAIN saveResult.savedMap.mapStats
        /\ saveResult.savedMap.mapStats.world_time
              = IF "worldTime" \in DOMAIN GivenStats
                THEN GivenStats.worldTime * 300 ELSE 0

\* C16: every returned document carries each of the entity collections,
\* and each is an empty sequence.
C16_EmptyEntities ==
    Returned =>
        \A f \in {"fire", "conwayEater", "conwayCreator", "frozen_tiles",
                  "tiles", "cities", "actors_data", "buildings", "kingdoms",
                  "clans", "alliances", "wars", "plots", "relations",
                  "cultures", "books", "subspecies", "languages",
                  "religions", "families", "armies", "items"} :
            /\ f \in DOMAIN saveResult.savedMap.entities
            /\ saveResult.savedMap.entities[f] = <<>>

\* a document for a 128 x 192 grid with statistics given was returned
C16_Witness ==
    /\ Returned
    /\ saveCall.width = 128 /\ saveCall.height = 192
    /\ "playerName" \in DOMAIN GivenStats /\ GivenStats.population = 7
    /\ Len(saveResult.savedMap.tileArray) = 192
    /\ DOMAIN saveResult.savedMap.entities # {}

-----------------------------------------------------------------------------
(* Further properties of the pipeline (checked under Spec)                 *)

\* run i of process() comes to its end in this step
EndsNow(i) ==
    /\ runs'[i].pc = "ended"
    /\ i > Len(runs) \/ runs[i].pc # "ended"

\* the download link appears in this step
LinkAppears == ui'.downloadLink /\ ~ui.downloadLink

\* C12: a save file is downloaded, and the download link shown, only by a
\* run whose colour table was loaded, whose image stage resolved and whose
\* document was assembled from that grid and compressed; a run that ends in
\* any other way leaves an error message and exposes nothing.
C12_AtomicStep ==
    /\ (downloads' # downloads \/ LinkAppears) =>
          \E i \in 1..Len(runs) :
             /\ runs[i].pc = "processImage" /\ EndsNow(i)
             /\ runs'[i].outcome = "downloaded"
             /\ Len(runs[i].call.colorMap) > 0
             /\ imageCall' = runs[i].call
             /\ imageResult'.status = "resolved"
             /\ saveCall'.tiles = imageResult'.tiles
             /\ saveResult'.status = "returned"
             /\ downloads' = downloads + 1
    /\ \A i \in 1..Len(runs') :
          EndsNow(i) /\ runs'[i].outcome # "downloaded" =>
             /\ downloads' = downloads
             /\ ~LinkAppears
             /\ ui'.error # ""
             /\ ~ui'.success

C12_AtomicOutcome == [][C12_AtomicStep]_vars

\* one run ended with the download and another failed in its image stage
C12_Witness ==
    /\ downloads = 1
    /\ \E i \in 1..Len(runs) : runs[i].outcome = "downloaded"
    /\ \E i \in 1..Len(runs) : runs[i].outcome = "image failed"

\* the runs of process() between their first statement and their end
InProgress == {i \in 1..Len(runs) : runs[i].pc # "ended"}

\* C13: at most one run of process() is in progress at any moment, and
\* while a run is in progress no handler changes imageFile, excelFile,
\* colorMap or statsConfig under it.
C13_OneAtATime ==
    [][/\ Cardinality(InProgress) <= 1
       /\ InProgress # {} /\ (\A i \in InProgress : runs'[i].pc # "ended") =>
             UNCHANGED <<imageFile, excelFile, colorMap, statsConfig>>]_vars

\* C17: the progress notifications delivered while the image stage of the
\* pipeline runs are non-decreasing in their processed-pixel count and the
\* last one before the result is the complete one (current = total).
C17_ProgressOrder ==
    StageAccepted /\ imageResult.status = "resolved" =>
        LET delivered == imageResult.progress
            total == imageResult.width * imageResult.height
        IN  /\ Len(delivered) > 0
            /\ delivered[Len(delivered)] = <<total, total>>
            /\ \A k \in 1..(Len(delivered) - 1) :
                  delivered[k][1] <= delivered[k + 1][1]

=============================================================================
